---- MODULE Spec2Model ----
(***************************************************************************)
(* Resume matching engine of main.py: the helper functions (allowed_file,  *)
(* extract_text_from_file, find_experience, find_education,                *)
(* grade_resume_nlp) as operators, and the request handler index() as a    *)
(* state machine: one step for the handler's entry (model check, form      *)
(* parsing, validation), one step per iteration of the loop over the       *)
(* uploaded files, one step for the final sort and rendering.              *)
(*                                                                         *)
(* Units.  Experience is kept in tenths of a year, raw similarity scores   *)
(* and thresholds in 1/10000, rounded scores in 1/1000, the score of a     *)
(* file name in 1/100.  File names are sequences of one-character strings. *)
(* A text is a sequence of tokens (numbers and words); the whitespace      *)
(* between tokens is the \s* of the patterns.                              *)
(***************************************************************************)
EXTENDS Integers, Sequences, FiniteSets, TLC

(***************************************************************************)
(* Bounds of the model.                                                    *)
(***************************************************************************)
\* the longest batch of uploaded files
MaxBatch == 3
\* the number of times the same form is posted in SpecRerun
MaxRuns == 2

(***************************************************************************)
(* Generic helpers on sequences.                                           *)
(***************************************************************************)
Range(s) == {s[i] : i \in 1..Len(s)}

SeqsUpTo(S, n) == UNION {[1..k -> S] : k \in 0..n}

Max(S) == CHOOSE x \in S : \A y \in S : y <= x

\* index of the last "." of a name, 0 when there is none
LastDot(name) ==
    LET dots == {i \in 1..Len(name) : name[i] = "."}
    IN  IF dots = {} THEN 0 ELSE Max(dots)

\* str.lower() on the letters the model's file names use
LowerChar(c) ==
    CASE c = "P" -> "p"
      [] c = "D" -> "d"
      [] c = "F" -> "f"
      [] c = "O" -> "o"
      [] c = "C" -> "c"
      [] c = "X" -> "x"
      [] OTHER -> c

Lower(s) == [i \in 1..Len(s) |-> LowerChar(s[i])]

\* main.py:29
ALLOWED_EXTENSIONS == {<<"p", "d", "f">>, <<"d", "o", "c", "x">>}

\* filename.rsplit('.', 1)[1]; the caller must know that the name has a dot
RsplitExt(name) == SubSeq(name, LastDot(name) + 1, Len(name))

\* main.py:54-57
allowed_file(filename) ==
    /\ LastDot(filename) > 0
    /\ Lower(RsplitExt(filename)) \in ALLOWED_EXTENSIONS

(***************************************************************************)
(* werkzeug.utils.secure_filename, as called at main.py:401: non-ASCII     *)
(* characters are dropped, path separators become blanks, runs of blanks   *)
(* become one "_", every character outside [A-Za-z0-9_.-] is removed and   *)
(* leading and trailing "." and "_" are stripped.                          *)
(***************************************************************************)
AsciiKept == {"a", "b", "c", "d", "e", "f", "g", "n", "o", "p", "t", "x",
              "P", "D", "F", "O", "C", "X", ".", "_", "-", " ", "/", "#"}

NameChars == {"a", "b", "c", "d", "e", "f", "g", "n", "o", "p", "t", "x",
              "P", "D", "F", "O", "C", "X", ".", "_", "-"}

RECURSIVE DropNonAscii(_)
DropNonAscii(s) ==
    IF s = <<>> THEN <<>>
    ELSE IF Head(s) \in AsciiKept THEN <<Head(s)>> \o DropNonAscii(Tail(s))
    ELSE DropNonAscii(Tail(s))

SepToBlank(s) == [i \in 1..Len(s) |-> IF s[i] = "/" THEN " " ELSE s[i]]

\* "_".join(s.split()): leading and trailing blanks go, inner runs become "_"
RECURSIVE JoinSplit(_, _)
JoinSplit(s, seenWord) ==
    IF s = <<>> THEN <<>>
    ELSE IF Head(s) = " "
         THEN IF seenWord /\ \E i \in 1..Len(s) : s[i] # " "
              THEN IF Len(s) > 1 /\ s[2] = " "
                   THEN JoinSplit(Tail(s), seenWord)
                   ELSE <<"_">> \o JoinSplit(Tail(s), seenWord)
              ELSE JoinSplit(Tail(s), seenWord)
         ELSE <<Head(s)>> \o JoinSplit(Tail(s), TRUE)

RECURSIVE KeepNameChars(_)
KeepNameChars(s) ==
    IF s = <<>> THEN <<>>
    ELSE IF Head(s) \in NameChars THEN <<Head(s)>> \o KeepNameChars(Tail(s))
    ELSE KeepNameChars(Tail(s))

\* str.strip("._")
StripDotUnderscore(s) ==
    LET keep == {i \in 1..Len(s) : s[i] \notin {".", "_"}}
    IN  IF keep = {} THEN <<>>
        ELSE SubSeq(s, CHOOSE i \in keep : \A j \in keep : i <= j, Max(keep))

secure_filename(filename) ==
    StripDotUnderscore(KeepNameChars(JoinSplit(SepToBlank(DropNonAscii(filename)), FALSE)))

(***************************************************************************)
(* Texts.  A number token carries its integer part ip and its fractional   *)
(* digit fp (-1 when the number is written without a fraction); a word     *)
(* token carries its spelling.                                             *)
(***************************************************************************)
Num(ip, fp) == [k |-> "num", ip |-> ip, fp |-> fp, w |-> ""]

Word(w) == [k |-> "word", ip |-> 0, fp |-> -1, w |-> w]

\* str.lower() on the words the model's texts use
LowerWord(w) ==
    CASE w = "Years" -> "years"
      [] w = "B.Tech" -> "b.tech"
      [] w = "M.Tech" -> "m.tech"
      [] w = "PhD" -> "phd"
      [] OTHER -> w

\* the token after position i, skipping one optional "+"
AfterPlus(text, i) ==
    IF i + 1 <= Len(text) /\ text[i + 1].k = "word" /\ text[i + 1].w = "+"
    THEN i + 2 ELSE i + 1

\* re.IGNORECASE: the unit word, whatever its case
UnitAt(text, j, units) ==
    /\ j <= Len(text)
    /\ text[j].k = "word"
    /\ LowerWord(text[j].w) \in units

\* main.py:94  (\d+\.?\d*)\s*\+?\s*years?   the captured floats, in tenths
year_matches(text) ==
    {IF text[i].fp >= 0 THEN 10 * text[i].ip + text[i].fp ELSE 10 * text[i].ip :
        i \in {j \in 1..Len(text) :
                 text[j].k = "num" /\ UnitAt(text, AfterPlus(text, j), {"year", "years"})}}

\* main.py:95  (\d+)\s*\+?\s*months?   \d+ takes the digits next to the unit:
\* the fractional digit when the number has one
month_matches(text) ==
    {IF text[i].fp >= 0 THEN text[i].fp ELSE text[i].ip :
        i \in {j \in 1..Len(text) :
                 text[j].k = "num" /\ UnitAt(text, AfterPlus(text, j), {"month", "months"})}}

\* round(x, 1) of x = n/120: to the nearest tenth, an exact tie to the even
\* tenth (the ties of the model's texts are exact binary fractions)
RoundTenths(n) ==
    LET q == n \div 12
        r == n % 12
    IN  IF r < 6 THEN q
        ELSE IF r > 6 THEN q + 1
        ELSE IF q % 2 = 0 THEN q ELSE q + 1

RECURSIVE SumOf(_)
SumOf(S) == IF S = {} THEN 0 ELSE LET x == CHOOSE y \in S : TRUE IN x + SumOf(S \ {x})

\* the mentions added up instead of the largest taken
MutExperienceSum(text) == RoundTenths(12 * SumOf(year_matches(text)) + 10 * SumOf(month_matches(text)))

\* main.py:92-104, the result in tenths of a year
find_experience(text) ==
    LET years  == IF year_matches(text) # {} THEN Max(year_matches(text)) ELSE 0
        months == IF month_matches(text) # {} THEN Max(month_matches(text)) ELSE 0
    IN  RoundTenths(12 * years + 10 * months)

\* main.py:113-117, the words of text_lower that an undergraduate pattern matches
ug_patterns == {"be", "b.e", "btech", "b.tech", "bsc", "b.sc", "bca", "bba",
                "bachelor", "undergraduate", "diploma"}

\* main.py:118-122
masters_patterns == {"ms", "m.s", "me", "m.e", "mtech", "m.tech", "mca", "mba",
                     "master", "postgraduate"}

\* main.py:123-125
pg_patterns == {"phd", "ph.d", "doctorate", "doctoral"}

\* any(re.search(pattern, text_lower) for pattern in patterns)
AnyMatch(text, patterns) ==
    \E i \in 1..Len(text) : text[i].k = "word" /\ LowerWord(text[i].w) \in patterns

\* main.py:121, pg\s*diploma: a pattern over two words
masters_phrases == {<<"pg", "diploma">>}

\* re.search of a pattern that spans several words
PhraseMatch(text, phrases) ==
    \E ph \in phrases : \E i \in 1..Len(text) :
        /\ i + Len(ph) - 1 <= Len(text)
        /\ \A j \in 1..Len(ph) :
             text[i + j - 1].k = "word" /\ LowerWord(text[i + j - 1].w) = ph[j]

\* main.py:127
ug_match(text) == AnyMatch(text, ug_patterns)

\* main.py:129
masters_match(text) == AnyMatch(text, masters_patterns) \/ PhraseMatch(text, masters_phrases)

\* main.py:131
pg_match(text) == AnyMatch(text, pg_patterns)

\* the three tests chained with elif: the first group that matches wins
MutEducationFirstOnly(text) ==
    IF ug_match(text) THEN {"UG"}
    ELSE IF masters_match(text) THEN {"Masters"}
    ELSE IF pg_match(text) THEN {"PG"}
    ELSE {}

\* main.py:106-134
find_education(text) ==
    (IF ug_match(text) THEN {"UG"} ELSE {})
    \cup (IF masters_match(text) THEN {"Masters"} ELSE {})
    \cup (IF pg_match(text) THEN {"PG"} ELSE {})

\* sorted(list(candidate_education)): the labels in string order
SortedEducation(edu) ==
    SelectSeq(<<"Masters", "PG", "UG">>, LAMBDA l : l \in edu)

(***************************************************************************)
(* Text extraction.  A file is a record: its uploaded name, the text its   *)
(* pages or paragraphs hold, whether the parser raises on it, and the      *)
(* similarity the language model computes between that text and the        *)
(* requirements.                                                           *)
(***************************************************************************)
\* main.py:59-72 and 74-81: the parser's text, "" when it raises
extract_text(file) == IF file.corrupt THEN <<>> ELSE file.content

\* main.py:83-90: the outcome of the call, raised when the sanitized name
\* has no "." to split at (IndexError at line 85)
extract_text_from_file(file, filename) ==
    IF LastDot(filename) = 0
    THEN [raised |-> TRUE, text |-> <<>>]
    ELSE IF Lower(RsplitExt(filename)) \in ALLOWED_EXTENSIONS
    THEN [raised |-> FALSE, text |-> extract_text(file)]
    ELSE [raised |-> FALSE, text |-> <<>>]

(***************************************************************************)
(* Similarity grading.                                                     *)
(***************************************************************************)
\* round(score, 3) of a score in 1/10000, in 1/1000
Round3(score) == (score + 5) \div 10

\* f"{score:.2f}" of a rounded score in 1/1000, in 1/100
Format2(score3) == (score3 + 5) \div 10

\* the comparison of line 149 made strict
MutGradeStrict(resume_text, requirements_text, nlp_model, similarity_threshold, sim) ==
    IF requirements_text = <<>> \/ ~nlp_model
    THEN [passed |-> FALSE, similarity_score |-> 0, invoked |-> FALSE]
    ELSE IF sim > similarity_threshold
    THEN [passed |-> TRUE, similarity_score |-> Round3(sim), invoked |-> TRUE]
    ELSE [passed |-> FALSE, similarity_score |-> Round3(sim), invoked |-> TRUE]

\* main.py:136-152.  sim is what resume_doc.similarity(requirements_doc)
\* returns; invoked tells whether nlp_model was called
grade_resume_nlp(resume_text, requirements_text, nlp_model, similarity_threshold, sim) ==
    IF requirements_text = <<>> \/ ~nlp_model
    THEN [passed |-> FALSE, similarity_score |-> 0, invoked |-> FALSE]
    ELSE IF sim >= similarity_threshold
    THEN [passed |-> TRUE, similarity_score |-> Round3(sim), invoked |-> TRUE]
    ELSE [passed |-> FALSE, similarity_score |-> Round3(sim), invoked |-> TRUE]

(***************************************************************************)
(* The form of a request.                                                  *)
(***************************************************************************)
\* str.strip() of the requirements field
StripBlanks(s) ==
    LET keep == {i \in 1..Len(s) : s[i] # " "}
    IN  IF keep = {} THEN <<>>
        ELSE SubSeq(s, CHOOSE i \in keep : \A j \in keep : i <= j, Max(keep))

\* the strings float() accepts, among those the model's forms carry
IsFloat(s) == s \in {"0.6", "2"}

\* float() of the threshold field, in 1/10000
FloatThreshold(s) == CASE s = "0.6" -> 6000 [] s = "2" -> 20000

\* float() of the experience field, in tenths of a year
FloatExperience(s) == CASE s = "2" -> 20 [] s = "0.6" -> 6

\* the files a browser can upload
FileA == [filename |-> <<"a", ".", "p", "d", "f">>, corrupt |-> FALSE, sim |-> 7204,
          content |-> <<Num(5, -1), Word("Years"), Word("B.Tech")>>]

FileB == [filename |-> <<"b", " ", "c", ".", "D", "O", "C", "X">>, corrupt |-> FALSE, sim |-> 6000,
          content |-> <<Num(2, -1), Word("years"), Word("bsc"), Word("M.Tech")>>]

FileD == [filename |-> <<"d", ".", "d", "o", "c", "x">>, corrupt |-> FALSE, sim |-> 7196,
          content |-> <<Num(1, -1), Word("year")>>]

FileE == [filename |-> <<"e", ".", "p", "d", "f">>, corrupt |-> FALSE, sim |-> 5996,
          content |-> <<Num(7, -1), Word("+"), Word("years"), Word("PhD")>>]

\* a name that secure_filename reduces to "pdf"
FileHash == [filename |-> <<"#", ".", "p", "d", "f">>, corrupt |-> FALSE, sim |-> 7204,
             content |-> <<Num(5, -1), Word("years")>>]

FileTxt == [filename |-> <<"n", ".", "t", "x", "t">>, corrupt |-> FALSE, sim |-> 7204,
            content |-> <<Num(5, -1), Word("years")>>]

\* a PDF the parser raises on
FileCorrupt == [filename |-> <<"g", ".", "p", "d", "f">>, corrupt |-> TRUE, sim |-> 7204,
                content |-> <<Num(5, -1), Word("years")>>]

\* the part a browser sends for a file input with nothing selected
FileNone == [filename |-> <<>>, corrupt |-> FALSE, sim |-> 0, content |-> <<>>]

Files == {FileA, FileB, FileD, FileE, FileHash, FileTxt, FileCorrupt, FileNone}

Batches == SeqsUpTo(Files, MaxBatch)

Forms ==
    [method : {"POST"},
     files : Batches,
     requirements : {<<>>, <<" ", " ">>, <<" ", "p", "y", " ">>},
     threshold : {"0.6", "abc"},
     criteria_toggle : {"on", ""},
     experience : {"", "2", "abc"},
     education : {{}, {"UG", "Masters"}}]
    \cup
    [method : {"GET"}, files : {<<>>}, requirements : {<<>>}, threshold : {"0.6"},
     criteria_toggle : {""}, experience : {""}, education : {{}}]

NoForm == [method |-> "", files |-> <<>>, requirements |-> <<>>, threshold |-> "",
           criteria_toggle |-> "", experience |-> "", education |-> {}]

NoLocals == [requirements_text |-> <<>>, similarity_threshold |-> 0,
             filters_enabled |-> FALSE, min_experience |-> 0, required_education |-> {}]

NoResponse == [kind |-> "none", has_results |-> FALSE, results |-> <<>>]

(***************************************************************************)
(* State.                                                                  *)
(***************************************************************************)
VARIABLES
    NLP_MODEL,      \* TRUE when spacy.load succeeded, FALSE when NLP_MODEL is None
    uploads,        \* the names in UPLOAD_FOLDER
    matches,        \* the names in MATCH_FOLDER
    pc,             \* "idle", "loop" (inside the for loop) or "responded"
    request,        \* the form of the request being handled
    locals,         \* the parsed fields of the form (main.py:374-394)
    idx,            \* the position of the for loop in request.files
    results,        \* main.py:396
    match_counter,  \* main.py:397
    flashes,        \* the messages flashed by this request
    response,       \* what the handler returned
    log,            \* per file of the loop, what the iteration did
    runs,           \* the number of requests handled so far
    prev,           \* response and log of the request before this one
    graded,         \* the last direct call of grade_resume_nlp: arguments and result
    featured        \* the last direct call of find_experience or find_education

vars == <<NLP_MODEL, uploads, matches, pc, request, locals, idx, results,
          match_counter, flashes, response, log, runs, prev, graded, featured>>

NoFeature == [called |-> "none", text |-> <<>>, experience |-> 0, education |-> {}]

NoGrade == [called |-> FALSE, resume_text |-> <<>>, requirements_text |-> <<>>,
            nlp_model |-> FALSE, similarity_threshold |-> 0, sim |-> 0,
            out |-> [passed |-> FALSE, similarity_score |-> 0, invoked |-> FALSE]]

NoPrev == [response |-> NoResponse, log |-> <<>>]

\* the module is loaded: the model is there or not, the two folders exist
Init ==
    /\ NLP_MODEL \in BOOLEAN
    /\ uploads = {}
    /\ matches = {}
    /\ pc = "idle"
    /\ request = NoForm
    /\ locals = NoLocals
    /\ idx = 0
    /\ results = <<>>
    /\ match_counter = 0
    /\ flashes = <<>>
    /\ response = NoResponse
    /\ log = <<>>
    /\ runs = 0
    /\ prev = NoPrev
    /\ graded = NoGrade
    /\ featured = NoFeature

(***************************************************************************)
(* index(), entry: main.py:364-397.                                        *)
(***************************************************************************)
\* the check of line 364 left out
MutModelNeverMissing(nlp_model) == FALSE

\* main.py:364
ModelMissing(nlp_model) == ~nlp_model

\* the counter kept across requests (a module-level counter)
MutCounterKept(counter) == counter

\* main.py:397, given the counter's value at the end of the request before
InitialCounter(counter) == 0

\* main.py:374-379 and 388-391: the locals parsed from a form that passed
\* validation
ParseForm(form) ==
    [requirements_text |-> StripBlanks(form.requirements),
     similarity_threshold |-> FloatThreshold(form.threshold),
     filters_enabled |-> (form.criteria_toggle = "on"),
     min_experience |-> IF form.criteria_toggle = "on" /\ form.experience # ""
                        THEN FloatExperience(form.experience) ELSE 0,
     required_education |-> form.education]

\* main.py:364-394: how the entry of the handler ends for a form.
\* "model" 364-366, "get" 447, "nopart" 369-371, "valueerror" line 375 raises,
\* "nofiles" 381-383, "norequirements" 384-386, "badexperience" 392-394,
\* "run" the loop is entered
EntryOutcome(nlp_model, form) ==
    IF ModelMissing(nlp_model) THEN "model"
    ELSE IF form.method # "POST" THEN "get"
    ELSE IF form.files = <<>> THEN "nopart"
    ELSE IF ~IsFloat(form.threshold) THEN "valueerror"
    ELSE IF form.files[1].filename = <<>> THEN "nofiles"
    ELSE IF StripBlanks(form.requirements) = <<>> THEN "norequirements"
    ELSE IF form.criteria_toggle = "on" /\ form.experience # ""
            /\ ~IsFloat(form.experience) THEN "badexperience"
    ELSE "run"

FlashOf(outcome) ==
    IF outcome \in {"model", "nopart", "nofiles", "norequirements", "badexperience"}
    THEN <<[kind |-> outcome, file |-> <<>>]>>
    ELSE <<>>

ResponseOf(outcome) ==
    CASE outcome \in {"model", "get"} ->
            [kind |-> "page", has_results |-> FALSE, results |-> <<>>]
      [] outcome \in {"nopart", "nofiles", "norequirements", "badexperience"} ->
            [kind |-> "redirect", has_results |-> FALSE, results |-> <<>>]
      [] outcome = "valueerror" ->
            [kind |-> "error", has_results |-> FALSE, results |-> <<>>]

\* the handler is entered with a form
Index(form) ==
    LET outcome == EntryOutcome(NLP_MODEL, form)
    IN  /\ request' = form
        /\ runs' = runs + 1
        /\ prev' = [response |-> response, log |-> log]
        /\ log' = <<>>
        /\ flashes' = FlashOf(outcome)
        /\ results' = <<>>
        /\ idx' = 1
        /\ IF outcome = "run"
           THEN /\ locals' = ParseForm(form)
                /\ match_counter' = InitialCounter(match_counter)
                /\ pc' = "loop"
                /\ response' = NoResponse
           ELSE /\ locals' = NoLocals
                /\ match_counter' = match_counter
                /\ pc' = "responded"
                /\ response' = ResponseOf(outcome)
        /\ UNCHANGED <<NLP_MODEL, uploads, matches, graded, featured>>

\* a browser sends a request
Submit ==
    /\ pc = "idle"
    /\ \E form \in Forms : Index(form)

(***************************************************************************)
(* index(), one iteration of the loop over the files: main.py:399-440.     *)
(***************************************************************************)
\* main.py:400: FileStorage is falsy when its filename is empty
Processable(file) == file.filename # <<>> /\ allowed_file(file.filename)

\* the hard filters left out
MutFiltersIgnored(filters_enabled, experience, min_experience, education, required_education) == TRUE

\* main.py:412-416: neither continue is taken
HardFiltersPass(filters_enabled, experience, min_experience, education, required_education) ==
    filters_enabled =>
        /\ ~(experience < min_experience)
        /\ required_education \subseteq education

\* the counter incremented for every graded file
MutCounterAlways(counter, passed) == counter + 1

\* main.py:421-422
CounterAfter(counter, passed) == IF passed THEN counter + 1 ELSE counter

\* main.py:424-425: f"{match_counter:06d}_{score:.2f}.{file_extension}"
new_filename(counter, score, original_filename) ==
    [counter |-> counter, score |-> Format2(score), ext |-> RsplitExt(original_filename)]

\* the append moved into the try block, behind the copy
MutResultsDropFailed(res, entry, copied) == IF copied THEN Append(res, entry) ELSE res

\* main.py:428-440: the result list after an accepted file, copied or not
ResultsAfter(res, entry, copied) == Append(res, entry)

\* what one iteration does with a file, given the locals of the request and
\* whether shutil.copy succeeds if it gets to be called.
\*   kind: "skipped" 400, "raised" 405 (IndexError in extract_text_from_file),
\*         "empty" 406-407, "filtered" 412-416, "below" 421, "accepted" 421-440
Iteration(file, loc, nlp_model, counter, copy_ok) ==
    IF ~Processable(file)
    THEN [kind |-> "skipped", saved |-> <<>>, text |-> <<>>, scored |-> FALSE,
          counter |-> counter, entry |-> <<>>, copied |-> FALSE]
    ELSE
    LET original_filename == secure_filename(file.filename)
        extraction == extract_text_from_file(file, original_filename)
        resume_text == extraction.text
        candidate_experience == find_experience(resume_text)
        candidate_education == find_education(resume_text)
        nlp_grade == grade_resume_nlp(resume_text, loc.requirements_text, nlp_model,
                                      loc.similarity_threshold, file.sim)
        counter2 == CounterAfter(counter, nlp_grade.passed)
        base == [kind |-> "raised", saved |-> <<original_filename>>, text |-> resume_text,
                 scored |-> FALSE, counter |-> counter, entry |-> <<>>, copied |-> FALSE]
    IN  IF extraction.raised THEN base
        ELSE IF resume_text = <<>> THEN [base EXCEPT !.kind = "empty"]
        ELSE IF ~HardFiltersPass(loc.filters_enabled, candidate_experience,
                                 loc.min_experience, candidate_education,
                                 loc.required_education)
        THEN [base EXCEPT !.kind = "filtered"]
        ELSE IF ~nlp_grade.passed
        THEN [base EXCEPT !.kind = "below", !.scored = nlp_grade.invoked,
                          !.counter = counter2]
        ELSE [base EXCEPT !.kind = "accepted", !.scored = nlp_grade.invoked,
                          !.counter = counter2, !.copied = copy_ok,
                          !.entry = <<[original_filename |-> original_filename,
                                       new_filename |-> new_filename(counter2,
                                            nlp_grade.similarity_score, original_filename),
                                       score |-> nlp_grade.similarity_score,
                                       experience |-> candidate_experience,
                                       education |-> SortedEducation(candidate_education)]>>]

ProcessFile ==
    /\ pc = "loop"
    /\ idx <= Len(request.files)
    /\ \E copy_ok \in BOOLEAN :
        \E it \in {Iteration(request.files[idx], locals, NLP_MODEL, match_counter, copy_ok)} :
            /\ uploads' = uploads \cup Range(it.saved)
            /\ match_counter' = it.counter
            /\ log' = Append(log, [kind |-> it.kind, text |-> it.text, scored |-> it.scored,
                                   counter |-> it.counter, copied |-> it.copied,
                                   entry |-> it.entry])
            /\ IF it.kind = "accepted"
               THEN /\ results' = ResultsAfter(results, it.entry[1], it.copied)
                    /\ matches' = IF it.copied
                                  THEN matches \cup {it.entry[1].new_filename}
                                  ELSE matches
                    /\ flashes' = IF it.copied THEN flashes
                                  ELSE Append(flashes, [kind |-> "copy",
                                                        file |-> it.entry[1].original_filename])
               ELSE UNCHANGED <<results, matches, flashes>>
            /\ IF it.kind = "raised"
               THEN /\ pc' = "responded"
                    /\ response' = [kind |-> "error", has_results |-> FALSE, results |-> <<>>]
                    /\ idx' = idx
               ELSE /\ idx' = idx + 1
                    /\ UNCHANGED <<pc, response>>
    /\ UNCHANGED <<NLP_MODEL, request, locals, runs, prev, graded, featured>>

(***************************************************************************)
(* index(), after the loop: main.py:442-444.                               *)
(***************************************************************************)
\* insert e behind every entry of the sorted list s whose score is not lower
RECURSIVE InsertDesc(_, _)
InsertDesc(s, e) ==
    IF s = <<>> THEN <<e>>
    ELSE IF Head(s).score >= e.score THEN <<Head(s)>> \o InsertDesc(Tail(s), e)
    ELSE <<e>> \o s

RECURSIVE SortDescFrom(_, _)
SortDescFrom(sorted, rest) ==
    IF rest = <<>> THEN sorted
    ELSE SortDescFrom(InsertDesc(sorted, Head(rest)), Tail(rest))

\* insert e in front of the entries of equal score
RECURSIVE MutInsertFront(_, _)
MutInsertFront(s, e) ==
    IF s = <<>> THEN <<e>>
    ELSE IF Head(s).score > e.score THEN <<Head(s)>> \o MutInsertFront(Tail(s), e)
    ELSE <<e>> \o s

RECURSIVE MutSortFrom(_, _)
MutSortFrom(sorted, rest) ==
    IF rest = <<>> THEN sorted
    ELSE MutSortFrom(MutInsertFront(sorted, Head(rest)), Tail(rest))

\* an ascending sort reversed: equal scores come out in reverse order
MutSortedReversed(res) == MutSortFrom(<<>>, res)

\* main.py:442: sorted(results, key=score, reverse=True), a stable sort
sorted_results(res) == SortDescFrom(<<>>, res)

Finish ==
    /\ pc = "loop"
    /\ idx > Len(request.files)
    /\ response' = [kind |-> "page", has_results |-> TRUE, results |-> sorted_results(results)]
    /\ pc' = "responded"
    /\ UNCHANGED <<NLP_MODEL, uploads, matches, request, locals, idx, results,
                   match_counter, flashes, log, runs, prev, graded, featured>>

\* the browser posts the form of the last request once more
Resubmit ==
    /\ pc = "responded"
    /\ runs < MaxRuns
    /\ Index(request)

\* the forms posted in SpecRerun: they pass validation, with the filters off
\* and their fields blank, or on and their fields set
RerunForms ==
    {f \in Forms :
        /\ f.method = "POST" /\ f.threshold = "0.6"
        /\ StripBlanks(f.requirements) # <<>>
        /\ \A i \in 1..Len(f.files) : f.files[i] \notin {FileNone, FileTxt}
        /\ \/ f.criteria_toggle = "" /\ f.experience = "" /\ f.education = {}
           \/ f.criteria_toggle = "on" /\ f.experience = "2" /\ f.education # {}}

SubmitValid ==
    /\ pc = "idle"
    /\ \E form \in RerunForms : Index(form)

Next == Submit \/ ProcessFile \/ Finish

Spec == Init /\ [][Next]_vars

NextRerun == SubmitValid \/ ProcessFile \/ Finish \/ Resubmit

SpecRerun == Init /\ [][NextRerun]_vars

(***************************************************************************)
(* grade_resume_nlp called on its own, on texts, requirements, thresholds  *)
(* and model outputs of a bounded set.  The model's similarity for an      *)
(* empty text is 0 (a document without vectors).                           *)
(***************************************************************************)
GradeTexts == {<<>>, FileA.content, FileB.content, FileD.content, FileE.content}

GradeRequirements == {<<>>, <<"p", "y">>}

GradeThresholds == {FloatThreshold("0.6"), FloatThreshold("2")}

GradeSims == {0, 5996, 6000, 7204}

Grade ==
    /\ \E resume_text \in GradeTexts, requirements_text \in GradeRequirements,
          similarity_threshold \in GradeThresholds, sim \in GradeSims :
        /\ resume_text = <<>> => sim = 0
        /\ graded' = [called |-> TRUE, resume_text |-> resume_text,
                      requirements_text |-> requirements_text, nlp_model |-> NLP_MODEL,
                      similarity_threshold |-> similarity_threshold, sim |-> sim,
                      out |-> grade_resume_nlp(resume_text, requirements_text, NLP_MODEL,
                                               similarity_threshold, sim)]
    /\ UNCHANGED <<NLP_MODEL, uploads, matches, pc, request, locals, idx, results,
                   match_counter, flashes, response, log, runs, prev, featured>>

SpecGrade == Init /\ [][Grade]_vars

(***************************************************************************)
(* Properties.                                                             *)
(***************************************************************************)
\* the request went through the loop and returned its result list
RunEnded == pc = "responded" /\ response.has_results

\* the files of the batch the loop has been through
Processed == 1..Len(log)

\* the number of files accepted among the first i
AcceptedUpTo(i) == Cardinality({j \in 1..i : log[j].kind = "accepted"})

\* the result of file i is in the list res
HasResultIn(i, res) ==
    /\ log[i].entry # <<>>
    /\ \E k \in 1..Len(res) : res[k] = log[i].entry[1]

\* what the specification requires of an accepted file, read off the extracted
\* text, the form's filters and the model's score
MeetsCriteria(i) ==
    /\ log[i].text # <<>>
    /\ \/ ~locals.filters_enabled
       \/ /\ find_experience(log[i].text) >= locals.min_experience
          /\ locals.required_education \subseteq find_education(log[i].text)
    /\ request.files[i].sim >= locals.similarity_threshold

\* C1: at the end of a run a file of the batch has a result in the returned list
\* iff its extracted text is non-empty, it passes the hard filters when they are
\* enabled, and its similarity score is at least the threshold; the list holds
\* nothing else.
C1_ResultIffCriteria ==
    RunEnded =>
        /\ Len(log) = Len(request.files)
        /\ \A i \in Processed : HasResultIn(i, response.results) <=> MeetsCriteria(i)
        /\ Len(response.results) = Cardinality({i \in Processed : MeetsCriteria(i)})

\* C1 witness: a run with the filters enabled ended with a file whose score
\* equals the threshold in the list, and a file that passes experience and
\* similarity but lacks a required education level left out.
C1_Witness ==
    /\ RunEnded
    /\ locals.filters_enabled
    /\ \E i \in Processed :
        /\ request.files[i].sim = locals.similarity_threshold
        /\ HasResultIn(i, response.results)
    /\ \E i \in Processed :
        /\ log[i].text # <<>>
        /\ find_experience(log[i].text) >= locals.min_experience
        /\ request.files[i].sim >= locals.similarity_threshold
        /\ ~(locals.required_education \subseteq find_education(log[i].text))
        /\ ~HasResultIn(i, response.results)

\* C2: the ordinals of the assigned names are 1..k without gap or repeat, the
\* i-th accepted file in submission order has ordinal i wherever it is ranked,
\* and a file that is not accepted leaves the counter alone.
C2_OrdinalsInSubmissionOrder ==
    /\ \A k \in 1..Len(results) : results[k].new_filename.counter = k
    /\ pc = "loop" => match_counter = Len(results)
    /\ \A i \in Processed :
        /\ log[i].counter = AcceptedUpTo(i)
        /\ log[i].kind = "accepted" => log[i].entry[1].new_filename.counter = AcceptedUpTo(i)
        /\ log[i].kind # "accepted" => log[i].entry = <<>>
    /\ RunEnded =>
        /\ Len(response.results) = AcceptedUpTo(Len(log))
        /\ {response.results[k].new_filename.counter : k \in 1..Len(response.results)}
             = 1..AcceptedUpTo(Len(log))

\* C2 witness: a run ended in which a file was rejected before two accepted
\* ones, and the file ranked first carries ordinal 2.
C2_Witness ==
    /\ RunEnded
    /\ Len(response.results) >= 2
    /\ response.results[1].new_filename.counter = 2
    /\ \E i \in Processed : log[i].kind \in {"empty", "filtered", "below", "skipped"}
                            /\ AcceptedUpTo(i) = 0

\* C3: the returned list is a permutation of the accepted results, in
\* descending order of score, equal scores in submission order.
C3_SortedStable ==
    RunEnded =>
        /\ Len(response.results) = Len(results)
        /\ \A k \in 1..Len(results) :
             \E m \in 1..Len(response.results) : response.results[m] = results[k]
        /\ \A a, b \in 1..Len(response.results) :
             a < b =>
               \/ response.results[a].score > response.results[b].score
               \/ /\ response.results[a].score = response.results[b].score
                  /\ response.results[a].new_filename.counter
                       < response.results[b].new_filename.counter

\* C3 witness: a run ended with three results, two of them of equal score,
\* ranked in another order than they were accepted in.
C3_Witness ==
    /\ RunEnded
    /\ Len(results) = 3
    /\ response.results # results
    /\ \E a, b \in 1..3 : a < b /\ response.results[a].score = response.results[b].score

\* C4: the similarity model is called for a file only after its text was
\* found non-empty and, with the filters enabled, both hard filters passed.
C4_ScoredAfterFilters ==
    \A i \in Processed :
        log[i].scored =>
            /\ log[i].text # <<>>
            /\ locals.filters_enabled =>
                 /\ find_experience(log[i].text) >= locals.min_experience
                 /\ locals.required_education \subseteq find_education(log[i].text)

\* C4 witness: the loop went through an empty text, a file short of
\* experience or education whose score would pass, and a file that was scored.
C4_Witness ==
    /\ \E i \in Processed : log[i].kind = "empty" /\ ~log[i].scored
    /\ \E i \in Processed :
        /\ log[i].kind = "filtered"
        /\ ~log[i].scored
        /\ request.files[i].sim >= locals.similarity_threshold
    /\ \E i \in Processed : log[i].scored

\* the copy of the accepted file i failed
CopyFailed(i) == log[i].kind = "accepted" /\ ~log[i].copied

\* C5: a failed copy is reported for its file only; the file's result stays in
\* the list under the name and ordinal it was given, the counter keeps its
\* value, the loop goes on to the next file and the run returns every result.
C5_CopyFailureIsolated ==
    \A i \in Processed :
        CopyFailed(i) =>
            /\ \E k \in 1..Len(results) :
                 /\ results[k] = log[i].entry[1]
                 /\ results[k].new_filename.counter = AcceptedUpTo(i)
                 /\ results[k].original_filename = secure_filename(request.files[i].filename)
            /\ match_counter >= log[i].counter
            /\ log[i].entry[1].new_filename \notin matches
            /\ Cardinality({m \in 1..Len(flashes) : flashes[m].kind = "copy"})
                 = Cardinality({j \in Processed : CopyFailed(j)})
            /\ i = Len(log) => (pc = "loop" /\ idx = i + 1) \/ RunEnded
            /\ RunEnded => HasResultIn(i, response.results) /\ Len(log) = Len(request.files)

\* C5 witness: a run ended whose first file was accepted and could not be
\* copied, and whose second file was accepted and copied.
C5_Witness ==
    /\ RunEnded
    /\ Len(log) >= 2
    /\ CopyFailed(1)
    /\ log[2].kind = "accepted" /\ log[2].copied
    /\ HasResultIn(1, response.results)

\* C6: without the similarity model a request ends before the loop: nothing is
\* saved, extracted, graded or copied, the counter stays 0, no result list is
\* returned, and the failure is flashed on the page.
C6_ModelMissingFailsRun ==
    ~NLP_MODEL =>
        /\ pc # "loop"
        /\ uploads = {} /\ matches = {}
        /\ log = <<>> /\ results = <<>>
        /\ match_counter = 0
        /\ ~response.has_results
        /\ pc = "responded" =>
             /\ response.kind = "page"
             /\ \E m \in 1..Len(flashes) : flashes[m].kind = "model"

\* C6 witness: without the model, a request that would otherwise run (files,
\* requirements, numeric fields) was answered.
C6_Witness ==
    /\ ~NLP_MODEL
    /\ pc = "responded"
    /\ EntryOutcome(TRUE, request) = "run"
    /\ \E i \in 1..Len(request.files) : Processable(request.files[i])

\* the form is one the specification calls invalid input: no file supplied,
\* blank requirements, or an experience field that is no number
InvalidInput(form) ==
    /\ form.method = "POST"
    /\ \/ \A i \in 1..Len(form.files) : form.files[i].filename = <<>>
       \/ StripBlanks(form.requirements) = <<>>
       \/ form.experience # "" /\ ~IsFloat(form.experience)

\* C7: a request with invalid input is turned away before the loop whatever
\* the other fields hold: nothing is saved or processed, no result list is
\* returned, and the answer is the redirect of a rejected form, not an error.
C7_InvalidInputRejected ==
    (NLP_MODEL /\ runs > 0 /\ InvalidInput(request)) =>
        /\ pc = "responded"
        /\ response.kind = "redirect"
        /\ ~response.has_results
        /\ log = <<>> /\ uploads = {} /\ matches = {}

\* the dictionary the caller of grade_resume_nlp gets
Returned(out) == [passed |-> out.passed, similarity_score |-> out.similarity_score]

\* C8: with an empty input text or without the model, grade_resume_nlp does
\* not call the model, returns score 0 and not passed, and what it returns
\* differs from what a real comparison of score 0 returns.
C8_FailedComparisonMarked ==
    (graded.called /\ (graded.resume_text = <<>> \/ graded.requirements_text = <<>>
                       \/ ~graded.nlp_model)) =>
        /\ ~graded.out.invoked
        /\ ~graded.out.passed
        /\ graded.out.similarity_score = 0
        /\ Returned(graded.out)
             # Returned(grade_resume_nlp(FileA.content, <<"p", "y">>, TRUE,
                                         graded.similarity_threshold, 0))

\* the extraction of the file's text fails: the parser raises, or
\* extract_text_from_file itself does
ExtractionFails(file) ==
    /\ Processable(file)
    /\ file.corrupt \/ extract_text_from_file(file, secure_filename(file.filename)).raised

\* the results the loop appends for a batch, from counter value c on
RECURSIVE LoopResults(_, _, _)
LoopResults(files, loc, c) ==
    IF files = <<>> THEN <<>>
    ELSE LET it == Iteration(Head(files), loc, TRUE, c, TRUE)
         IN  it.entry \o LoopResults(Tail(files), loc, it.counter)

\* C9: a failure on one file stays with that file: its text is empty, it gets
\* no score, no result and no ordinal, the request still returns its list, and
\* the list is the one the batch without the failing files gives.
C9_FailureIsolated ==
    /\ \A i \in Processed :
         ExtractionFails(request.files[i]) =>
            /\ log[i].kind = "empty"
            /\ log[i].text = <<>> /\ ~log[i].scored /\ log[i].entry = <<>>
            /\ log[i].counter = IF i = 1 THEN 0 ELSE log[i - 1].counter
    /\ (pc = "responded" /\ NLP_MODEL /\ EntryOutcome(NLP_MODEL, request) = "run") =>
         /\ response.kind = "page" /\ response.has_results
         /\ Len(log) = Len(request.files)
         /\ response.results
              = sorted_results(LoopResults(SelectSeq(request.files,
                                   LAMBDA f : ~ExtractionFails(f)), locals, 0))

\* the texts extracted from the files of a batch, file by file
ExtractedTexts(l) == [i \in 1..Len(l) |-> l[i].text]

\* the profiles of the accepted files of a batch
Profiles(l) ==
    [i \in 1..Len(l) |->
        IF l[i].entry = <<>> THEN <<>>
        ELSE <<l[i].entry[1].experience, l[i].entry[1].education>>]

\* C10: the same form posted again gives the same extracted texts and
\* profiles and the same ranked list, names included, and its ordinals start
\* at 1 again whatever the request before accepted.
C10_RerunIdentical ==
    (runs >= 2 /\ pc = "responded") =>
        /\ response = prev.response
        /\ ExtractedTexts(log) = ExtractedTexts(prev.log)
        /\ Profiles(log) = Profiles(prev.log)
        /\ \A k \in 1..Len(results) : results[k].new_filename.counter = k
        /\ \A i \in Processed : log[i].counter = AcceptedUpTo(i)

\* C10 witness: the second request of a form ended after the first one
\* accepted two files, with the same two results, ordinals 1 and 2.
C10_Witness ==
    /\ runs = 2 /\ RunEnded
    /\ Len(prev.response.results) = 2
    /\ Len(response.results) = 2
    /\ {response.results[k].new_filename.counter : k \in 1..2} = {1, 2}
    /\ \E i \in 1..Len(prev.log) : prev.log[i].kind = "accepted" /\ ~prev.log[i].copied

(***************************************************************************)
(* Batches whose files all have different names as uploaded, two of which  *)
(* secure_filename maps to the same name.                                  *)
(***************************************************************************)
\* "b_c.DOCX": the name FileB's "b c.DOCX" is sanitized to
FileB2 == [filename |-> <<"b", "_", "c", ".", "D", "O", "C", "X">>, corrupt |-> FALSE, sim |-> 7196,
           content |-> <<Num(3, -1), Word("years"), Word("bsc"), Word("M.Tech")>>]

DupFiles == {FileA, FileB, FileB2, FileE}

DupForms ==
    {f \in [method : {"POST"}, files : SeqsUpTo(DupFiles, MaxBatch),
            requirements : {<<"p", "y">>}, threshold : {"0.6"},
            criteria_toggle : {"on", ""}, experience : {"", "2"},
            education : {{}, {"UG", "Masters"}}] :
        \A i, j \in 1..Len(f.files) : i # j => f.files[i].filename # f.files[j].filename}

SubmitDup ==
    /\ pc = "idle"
    /\ \E form \in DupForms : Index(form)

NextDup == SubmitDup \/ ProcessFile \/ Finish

SpecDup == Init /\ [][NextDup]_vars

\* C11: the list a run returns is deduplicated: no two of its results have the
\* same original_filename, also when several accepted files of the batch have
\* names that sanitize to the same one.
C11_Deduplicated ==
    RunEnded =>
        \A a, b \in 1..Len(response.results) :
            a # b => response.results[a].original_filename
                       # response.results[b].original_filename

(***************************************************************************)
(* find_experience and find_education called on their own, on every text   *)
(* of a bounded length over a vocabulary of numbers, units and degree      *)
(* words.  The numbers are whole or end in .5, so that a sum that lies     *)
(* halfway between two tenths is an exact binary fraction and round()      *)
(* takes it to the even tenth.                                             *)
(***************************************************************************)
\* the longest text given to find_experience
MaxExpTokens == 5
\* the longest text given to find_education
MaxEduTokens == 4

ExpTokens == {Num(2, -1), Num(3, -1), Num(5, -1), Num(6, -1), Num(2, 5),
              Word("+"), Word("years"), Word("months")}

EduTokens == {Word("B.Tech"), Word("PhD"), Word("and"), Word("me"), Word("bachelors"),
              Word("pg"), Word("diploma"), Word("mba"), Word("doctoral")}

\* main.py:409-410 (reached with the model loaded only, main.py:364) on a text
\* of the experience vocabulary
ExperienceOf ==
    /\ ~ModelMissing(NLP_MODEL)
    /\ featured.called = "none"
    /\ \E text \in SeqsUpTo(ExpTokens, MaxExpTokens) :
        featured' = [called |-> "experience", text |-> text,
                     experience |-> find_experience(text),
                     education |-> find_education(text)]
    /\ UNCHANGED <<NLP_MODEL, uploads, matches, pc, request, locals, idx, results,
                   match_counter, flashes, response, log, runs, prev, graded>>

\* main.py:409-410 on a text of the education vocabulary
EducationOf ==
    /\ ~ModelMissing(NLP_MODEL)
    /\ featured.called = "none"
    /\ \E text \in SeqsUpTo(EduTokens, MaxEduTokens) :
        featured' = [called |-> "education", text |-> text,
                     experience |-> find_experience(text),
                     education |-> find_education(text)]
    /\ UNCHANGED <<NLP_MODEL, uploads, matches, pc, request, locals, idx, results,
                   match_counter, flashes, response, log, runs, prev, graded>>

NextFeature == ExperienceOf \/ EducationOf

SpecFeature == Init /\ [][NextFeature]_vars

\* the largest matched number of a kind, 0 when nothing matched
LargestOr0(S) == IF S = {} THEN 0 ELSE Max(S)

\* C12: find_experience returns max(matched years) + max(matched months)/12
\* rounded to one decimal, a kind without a match counting 0: the result is a
\* tenth nearest to that sum (in 1/120 of a year: 12 per tenth, 10 per month),
\* it is 0 when neither pattern matches, repeated mentions are not added up
\* ("2+ years, 5 years" gives 5.0) and "3 years 6 months" gives 3.5.
C12_ExperienceMaxPlusMonths ==
    featured.called = "experience" =>
        LET years  == LargestOr0(year_matches(featured.text))
            months == LargestOr0(month_matches(featured.text))
            diff   == 12 * featured.experience - (12 * years + 10 * months)
        IN  /\ diff >= -6 /\ diff <= 6
            /\ featured.experience >= 0
            /\ (year_matches(featured.text) = {} /\ month_matches(featured.text) = {})
                 => featured.experience = 0
            /\ featured.text = <<Num(2, -1), Word("+"), Word("years"), Num(5, -1), Word("years")>>
                 => featured.experience = 50
            /\ featured.text = <<Num(3, -1), Word("years"), Num(6, -1), Word("months")>>
                 => featured.experience = 35
            /\ featured.text = <<Num(5, -1), Word("+"), Word("+"), Word("years")>>
                 => featured.experience = 0

\* C12 witness: find_experience was called on "2 + years 5 years", where the
\* year pattern matches 2 and 5, and returned 5.0.
C12_Witness ==
    /\ featured.called = "experience"
    /\ featured.text = <<Num(2, -1), Word("+"), Word("years"), Num(5, -1), Word("years")>>
    /\ year_matches(featured.text) = {20, 50}
    /\ featured.experience = 50

\* C13: find_education returns UG iff an undergraduate pattern matches,
\* Masters iff a masters pattern matches and PG iff a doctoral pattern matches,
\* each whatever the other two groups do, and nothing else; "B.Tech and PhD"
\* gives exactly {UG, PG}.
C13_EducationGroupsIndependent ==
    featured.called = "education" =>
        /\ "UG" \in featured.education <=> ug_match(featured.text)
        /\ "Masters" \in featured.education <=> masters_match(featured.text)
        /\ "PG" \in featured.education <=> pg_match(featured.text)
        /\ featured.education \subseteq {"UG", "Masters", "PG"}
        /\ featured.text = <<Word("B.Tech"), Word("and"), Word("PhD")>>
             => featured.education = {"UG", "PG"}

\* C13 witness: find_education was called on "B.Tech and PhD" and returned
\* {UG, PG}.
C13_Witness ==
    /\ featured.called = "education"
    /\ featured.text = <<Word("B.Tech"), Word("and"), Word("PhD")>>
    /\ featured.education = {"UG", "PG"}

====
